---- MODULE Spec2Model ----
(***************************************************************************)
(* Model of the convex-typegen extractor: the descriptor normalizer        *)
(* (src/js/mocks/normalize.ts), the mocked primitive constructors          *)
(* (src/js/mocks/convex_values.ts), the mocked server module               *)
(* (src/unnamed/part_003) and the extraction driver (src/js/extractor.ts,  *)
(* lines 1-153).                                                           *)
(***************************************************************************)
EXTENDS Integers, Sequences, FiniteSets, TLC

VARIABLES
    val,        \* normalizer run: the value handed to normalize()
    out,        \* normalizer run: what normalize(val) returned (or Thrown)
    again,      \* normalizer run: what normalize(out) returned
    npc,        \* normalizer run: position
    decl,       \* shape run: the declared validator (source expression)
    outs,       \* shape run: shape name -> normalize() result of that shape
    argv,       \* driver: process.argv.slice(2), each path a sequence of characters
    pc,         \* driver: position in extractor.ts
    rules,      \* driver: the resolution rules the plugin has installed
    idx,        \* driver: index in argv of the next function path
    cache,      \* driver: the module registry, one entry per path imported
    tables,     \* __schema.tables of the mocked convex/server
    functions,  \* driver: the FunctionRecords pushed so far
    stdout,     \* what has been written to standard output
    stderr,     \* what has been written to the error stream
    exitCode,   \* -1 while the process runs, then its exit code
    invoked,    \* the user functions (handlers) that have been called, in order
    building,   \* schema run: the entries (table name, builder) of the mapping literal
    chain,      \* schema run: chained index calls made on the newest builder
    spc         \* schema run: "literal" while the mapping is built, "called" after defineSchema

normVars == <<val, out, again, npc>>

shapeVars == <<decl, outs>>

driverVars == <<argv, pc, rules, idx, cache, tables, functions, stdout, stderr, exitCode, invoked>>

schemaVars == <<building, chain, spc>>

vars == <<val, out, again, npc, decl, outs,
          argv, pc, rules, idx, cache, tables, functions, stdout, stderr, exitCode, invoked,
          building, chain, spc>>

(***************************************************************************)
(* JavaScript values.  Every value is a record with the same three fields, *)
(* t (the runtime type), s (a scalar's payload) and ents (the own          *)
(* enumerable properties, in Object.entries order, as records [k, v]).     *)
(***************************************************************************)
Undefined == [t |-> "undefined", s |-> "", ents |-> <<>>]

Null == [t |-> "null", s |-> "", ents |-> <<>>]

Str(x) == [t |-> "string", s |-> x, ents |-> <<>>]

Num(x) == [t |-> "number", s |-> x, ents |-> <<>>]

True == [t |-> "boolean", s |-> "true", ents |-> <<>>]

False == [t |-> "boolean", s |-> "false", ents |-> <<>>]

\* An object literal whose properties are listed in Object.entries order.
Obj(es) == [t |-> "object", s |-> "", ents |-> es]

P(key, value) == [k |-> key, v |-> value]

IndexKey(i) == CASE i = 1 -> "0" [] i = 2 -> "1" [] i = 3 -> "2" [] i = 4 -> "3" [] OTHER -> "n"

\* An array literal; its entries carry the index keys.
Arr(items) == [t |-> "array", s |-> "", ents |-> [i \in 1..Len(items) |-> P(IndexKey(i), items[i])]]

ArrItems(a) == [i \in 1..Len(a.ents) |-> a.ents[i].v]

\* A function value (typeof x === "function")
Fn(name) == [t |-> "function", s |-> name, ents |-> <<>>]

\* The outcome of an evaluation that raised a TypeError.
Thrown == [t |-> "throw", s |-> "TypeError", ents |-> <<>>]

\* typeof x === "object" && x !== null
IsObjectLike(x) == x.t \in {"object", "array"}

Has(o, key) == IsObjectLike(o) /\ \E i \in 1..Len(o.ents) : o.ents[i].k = key

\* o[key] on a non-null object: the property's value, or undefined.
Get(o, key) ==
    IF Has(o, key)
    THEN o.ents[CHOOSE i \in 1..Len(o.ents) : o.ents[i].k = key].v
    ELSE Undefined

\* o[key] = value on a plain object: replaces in place, or appends.
PropSet(o, key, value) ==
    IF Has(o, key)
    THEN [o EXCEPT !.ents = [i \in 1..Len(o.ents) |->
             IF o.ents[i].k = key THEN P(key, value) ELSE o.ents[i]]]
    ELSE [o EXCEPT !.ents = Append(o.ents, P(key, value))]

\* ToBoolean(x)
Truthy(x) ==
    CASE x.t \in {"undefined", "null"} -> FALSE
      [] x.t = "boolean" -> x.s = "true"
      [] x.t = "string" -> x.s # ""
      [] x.t = "number" -> x.s \notin {"0", "NaN"}
      [] OTHER -> TRUE

\* Object.entries(x) for objects and arrays; scalars other than non-empty
\* strings have no own enumerable properties (non-empty strings are kept
\* out of the positions where the code enumerates).
ObjectEntries(x) == IF IsObjectLike(x) THEN x.ents ELSE <<>>

Keys(o) == [i \in 1..Len(o.ents) |-> o.ents[i].k]

(***************************************************************************)
(* normalize.ts                                                            *)
(***************************************************************************)
isConvexValidator(v) == IsObjectLike(v) /\ Get(v, "isConvexValidator") = True

\* A descriptor test that wants the marker present and false.
isCodegenDescriptorStrict(v) ==
    /\ IsObjectLike(v)
    /\ Get(v, "type").t = "string"
    /\ Get(v, "isConvexValidator") = False

isCodegenDescriptor(v) ==
    /\ IsObjectLike(v)
    /\ Get(v, "type").t = "string"
    /\ ~Truthy(Get(v, "isConvexValidator"))

AnyD == Obj(<<P("type", Str("any"))>>)

RECURSIVE normalize(_)
RECURSIVE normalizeValidator(_)
RECURSIVE NormalizeEntries(_, _)
RECURSIVE NormalizeEntriesReversed(_, _)
RECURSIVE MapNormalize(_)

\* A loop that visits the entries last to first.
NormalizeEntriesReversed(entries, properties) ==
    IF entries = <<>> THEN properties
    ELSE LET d == normalize(entries[Len(entries)].v)
         IN  IF d = Thrown THEN Thrown
             ELSE NormalizeEntriesReversed(SubSeq(entries, 1, Len(entries) - 1),
                                           PropSet(properties, entries[Len(entries)].k, d))

\* for (const [key, v] of entries) properties[key] = normalize(v), started
\* from `properties`; a throwing normalize(v) leaves the loop.
NormalizeEntries(entries, properties) ==
    IF entries = <<>> THEN properties
    ELSE LET d == normalize(Head(entries).v)
         IN  IF d = Thrown THEN Thrown
             ELSE NormalizeEntries(Tail(entries), PropSet(properties, Head(entries).k, d))

\* A map that hands the members over as they are.
MapIdentity(items) == items

\* members.map((m) => normalize(m)) over the items of an array
MapNormalize(items) ==
    IF items = <<>> THEN <<>>
    ELSE <<normalize(Head(items))>> \o MapNormalize(Tail(items))

\* case "string" | "boolean" | "int64" | "null" | "any" | "bytes"
PrimitiveDescriptor(kind) == Obj(<<P("type", kind)>>)

\* The numeric kind under the name of the producer.
Float64Unmapped == Obj(<<P("type", Str("float64"))>>)

\* case "float64": real "float64" becomes the codegen type "number".
Float64Descriptor == Obj(<<P("type", Str("number"))>>)

\* case "id"
IdDescriptor(v) == Obj(<<P("type", Str("id")), P("tableName", Get(v, "tableName"))>>)

\* case "literal"
LiteralDescriptor(v) == Obj(<<P("type", Str("literal")), P("value", Get(v, "value"))>>)

\* case "object"
ObjectDescriptor(v) ==
    LET fields == Get(v, "fields")
        properties == IF Truthy(fields)
                      THEN NormalizeEntries(ObjectEntries(fields), Obj(<<>>))
                      ELSE Obj(<<>>)
    IN  IF properties = Thrown THEN Thrown
        ELSE Obj(<<P("type", Str("object")), P("properties", properties)>>)

\* An array arm that keeps the element as it came.
ArrayDescriptorShallow(v) == Obj(<<P("type", Str("array")), P("elements", Get(v, "element"))>>)

\* case "array"
ArrayDescriptor(v) ==
    LET e == normalize(Get(v, "element"))
    IN  IF e = Thrown THEN Thrown
        ELSE Obj(<<P("type", Str("array")), P("elements", e)>>)

\* case "union": members.map raises a TypeError unless members is an array.
UnionDescriptor(v) ==
    LET members == Get(v, "members")
    IN  IF members.t # "array" THEN Thrown
        ELSE LET variants == MapNormalize(ArrItems(members))
             IN  IF \E i \in 1..Len(variants) : variants[i] = Thrown THEN Thrown
                 ELSE Obj(<<P("type", Str("union")), P("variants", Arr(variants))>>)

\* case "record"
RecordDescriptor(v) ==
    LET kt == normalize(Get(v, "key"))
        vt == normalize(Get(v, "value"))
    IN  IF kt = Thrown \/ vt = Thrown THEN Thrown
        ELSE Obj(<<P("type", Str("record")), P("keyType", kt), P("valueType", vt)>>)

\* The switch of normalizeValidator: the descriptor built for v.kind.
InnerOf(v) ==
    LET kind == Get(v, "kind")
    IN  CASE kind \in {Str("string"), Str("boolean"), Str("int64"), Str("null"), Str("any"), Str("bytes")} ->
               PrimitiveDescriptor(kind)
          [] kind = Str("float64") -> Float64Descriptor
          [] kind = Str("id") -> IdDescriptor(v)
          [] kind = Str("literal") -> LiteralDescriptor(v)
          [] kind = Str("object") -> ObjectDescriptor(v)
          [] kind = Str("array") -> ArrayDescriptor(v)
          [] kind = Str("union") -> UnionDescriptor(v)
          [] kind = Str("record") -> RecordDescriptor(v)
          [] OTHER -> AnyD

\* A wrapper applied twice when the flag is set.
WrapOptionalTwice(isOpt, inner) ==
    IF isOpt
    THEN Obj(<<P("type", Str("optional")),
               P("inner", Obj(<<P("type", Str("optional")), P("inner", inner)>>))>>)
    ELSE inner

\* if (isOpt) return { type: "optional", inner }; return inner;
WrapOptional(isOpt, inner) ==
    IF isOpt THEN Obj(<<P("type", Str("optional")), P("inner", inner)>>) ELSE inner

normalizeValidator(v) ==
    LET isOpt == Get(v, "isOptional") = Str("optional")
        inner == InnerOf(v)
    IN  IF inner = Thrown THEN Thrown ELSE WrapOptional(isOpt, inner)

\* The raw-record arm of normalize: wrap the entries as an object descriptor.
WrapRaw(v) ==
    LET properties == NormalizeEntries(ObjectEntries(v), Obj(<<>>))
    IN  IF properties = Thrown THEN Thrown
        ELSE Obj(<<P("type", Str("object")), P("properties", properties)>>)

normalize(v) ==
    IF isCodegenDescriptor(v) THEN v
    ELSE IF isConvexValidator(v) THEN normalizeValidator(v)
    ELSE IF IsObjectLike(v) /\ v.t # "array" THEN WrapRaw(v)
    ELSE AnyD

(***************************************************************************)
(* Validator declarations as the source modules write them: v.string(),    *)
(* v.object({...}), ...  A declaration is a record [c, s, kids]: the       *)
(* constructor called, its scalar argument, and its validator arguments    *)
(* (for v.object the fields, keyed by name, in the order written).         *)
(***************************************************************************)
D0(ctor) == [c |-> ctor, s |-> "", kids |-> <<>>]

DId(table) == [c |-> "id", s |-> table, kids |-> <<>>]

DLit(value) == [c |-> "literal", s |-> value, kids |-> <<>>]

DOpt(x) == [c |-> "optional", s |-> "", kids |-> <<P("", x)>>]

DArr(x) == [c |-> "array", s |-> "", kids |-> <<P("", x)>>]

DRec(key, value) == [c |-> "record", s |-> "", kids |-> <<P("", key), P("", value)>>]

DUni(members) == [c |-> "union", s |-> "", kids |-> [i \in 1..Len(members) |-> P("", members[i])]]

DObj(fields) == [c |-> "object", s |-> "", kids |-> fields]

PrimitiveCtors == {"string", "number", "boolean", "int64", "float64", "null", "any", "bytes"}

RECURSIVE EvalMock(_)
RECURSIVE EvalReal(_)

\* The mock `v` of convex_values.ts applied to a declaration.
EvalMock(d) ==
    CASE d.c \in PrimitiveCtors -> Obj(<<P("type", Str(d.c))>>)
      [] d.c = "id" -> Obj(<<P("type", Str("id")), P("tableName", Str(d.s))>>)
      [] d.c = "literal" -> Obj(<<P("type", Str("literal")), P("value", Str(d.s))>>)
      [] d.c = "optional" -> Obj(<<P("type", Str("optional")), P("inner", EvalMock(d.kids[1].v))>>)
      [] d.c = "array" -> Obj(<<P("type", Str("array")), P("elements", EvalMock(d.kids[1].v))>>)
      [] d.c = "object" ->
           Obj(<<P("type", Str("object")),
                 P("properties", Obj([i \in 1..Len(d.kids) |-> P(d.kids[i].k, EvalMock(d.kids[i].v))]))>>)
      [] d.c = "record" ->
           Obj(<<P("type", Str("record")), P("keyType", EvalMock(d.kids[1].v)),
                 P("valueType", EvalMock(d.kids[2].v))>>)
      [] d.c = "union" ->
           Obj(<<P("type", Str("union")),
                 P("variants", Arr([i \in 1..Len(d.kids) |-> EvalMock(d.kids[i].v)]))>>)

\* A real convex/values validator: { kind, <payload>, isOptional, isConvexValidator: true }.
RealValidator(kind, payload, isOptional) ==
    Obj(<<P("kind", Str(kind))>> \o payload
        \o <<P("isOptional", Str(isOptional)), P("isConvexValidator", True)>>)

\* The real convex/values `v` applied to a declaration, in the layout
\* normalize.ts documents and reads: v.number() and v.float64() both have
\* kind "float64"; v.optional(x) is x with isOptional "optional".
EvalReal(d) ==
    CASE d.c \in {"number", "float64"} -> RealValidator("float64", <<>>, "required")
      [] d.c \in PrimitiveCtors \ {"number", "float64"} -> RealValidator(d.c, <<>>, "required")
      [] d.c = "id" -> RealValidator("id", <<P("tableName", Str(d.s))>>, "required")
      [] d.c = "literal" -> RealValidator("literal", <<P("value", Str(d.s))>>, "required")
      [] d.c = "optional" -> PropSet(EvalReal(d.kids[1].v), "isOptional", Str("optional"))
      [] d.c = "array" -> RealValidator("array", <<P("element", EvalReal(d.kids[1].v))>>, "required")
      [] d.c = "object" ->
           RealValidator("object",
               <<P("fields", Obj([i \in 1..Len(d.kids) |-> P(d.kids[i].k, EvalReal(d.kids[i].v))]))>>,
               "required")
      [] d.c = "record" ->
           RealValidator("record",
               <<P("key", EvalReal(d.kids[1].v)), P("value", EvalReal(d.kids[2].v))>>, "required")
      [] d.c = "union" ->
           RealValidator("union",
               <<P("members", Arr([i \in 1..Len(d.kids) |-> EvalReal(d.kids[i].v)]))>>, "required")

\* The bare field map { name: validator, ... } a source module passes instead
\* of v.object({...}); convex/values is not mocked, so the fields are real.
RawMapping(d) == Obj([i \in 1..Len(d.kids) |-> P(d.kids[i].k, EvalReal(d.kids[i].v))])

(***************************************************************************)
(* Bounded universes                                                       *)
(***************************************************************************)
MaxFields == 2

MaxMembers == 2

FieldNames == {"a", "b", "type"}

\* All sequences of length 1..n over S
SeqsUpTo(S, n) == UNION {[1..m -> S] : m \in 1..n}

\* Field-name sequences without repetition
NameSeqs == {ns \in SeqsUpTo(FieldNames, MaxFields) :
                \A i, j \in 1..Len(ns) : i # j => ns[i] # ns[j]}

\* Every validator kind as a field's declaration
FieldDecls ==
    {D0(c) : c \in PrimitiveCtors}
    \cup {DId("games"), DLit("Win"), DOpt(D0("string")), DArr(D0("number")),
          DObj(<<P("b", D0("boolean"))>>), DRec(D0("string"), D0("int64")),
          DUni(<<DLit("light"), DLit("dark")>>)}

ObjectDecls ==
    {DObj(<<>>)} \cup
    {DObj([i \in 1..Len(ns) |-> P(ns[i], fs[i])]) :
        <<ns, fs>> \in {pr \in NameSeqs \X SeqsUpTo(FieldDecls, MaxFields) : Len(pr[1]) = Len(pr[2])}}

Shapes == {"canonical", "real", "raw"}

Pending == [t |-> "pending", s |-> "", ents |-> <<>>]

(***************************************************************************)
(* Shape run: one declared object validator reaches normalize() in each of *)
(* its three runtime shapes.                                               *)
(***************************************************************************)
NormIdle == val = Undefined /\ out = Pending /\ again = Pending /\ npc = "idle"

\* No schema mapping is being built.
SchemaIdle == building = <<>> /\ chain = 0 /\ spc = "off"

\* The driver has not been started.
DriverIdle ==
    /\ argv = <<>> /\ pc = "off" /\ rules = <<>> /\ idx = 0 /\ cache = <<>>
    /\ tables = <<>> /\ functions = <<>> /\ stdout = <<>> /\ stderr = <<>> /\ exitCode = -1
    /\ invoked = <<>>

InitShapes ==
    /\ decl \in ObjectDecls
    /\ outs = [sh \in Shapes |-> Pending]
    /\ NormIdle
    /\ DriverIdle
    /\ SchemaIdle

\* normalize(v.object({...})) with the mock `v`: an already-built descriptor
NormalizeCanonical ==
    /\ decl # D0("none") /\ outs["canonical"] = Pending
    /\ outs' = [outs EXCEPT !["canonical"] = normalize(EvalMock(decl))]
    /\ UNCHANGED <<val, out, again, npc, decl, driverVars, schemaVars>>

\* normalize(v.object({...})) with the real `v`
NormalizeReal ==
    /\ decl # D0("none") /\ outs["real"] = Pending
    /\ outs' = [outs EXCEPT !["real"] = normalize(EvalReal(decl))]
    /\ UNCHANGED <<val, out, again, npc, decl, driverVars, schemaVars>>

\* normalize({...}) of the bare field map
NormalizeRaw ==
    /\ decl # D0("none") /\ outs["raw"] = Pending
    /\ outs' = [outs EXCEPT !["raw"] = normalize(RawMapping(decl))]
    /\ UNCHANGED <<val, out, again, npc, decl, driverVars, schemaVars>>

NextShapes == NormalizeCanonical \/ NormalizeReal \/ NormalizeRaw

SpecShapes == InitShapes /\ [][NextShapes]_vars

\* C1: once the three shapes of one declared object validator have been
\* normalized, the three results are structurally identical.
ShapesAgree ==
    (\A sh \in Shapes : outs[sh] # Pending) =>
        /\ outs["canonical"] = outs["real"]
        /\ outs["real"] = outs["raw"]

(***************************************************************************)
(* Normalizer run: one runtime value is handed to normalize(), and the     *)
(* result is handed to normalize() once more.                              *)
(***************************************************************************)
RealKinds == {"string", "boolean", "int64", "null", "any", "bytes", "float64"}

OptFlags == {"required", "optional"}

Type(name) == Obj(<<P("type", Str(name))>>)

RealLeaves ==
    {RealValidator(k, <<>>, o) : k \in RealKinds, o \in OptFlags}
    \cup {RealValidator("id", <<P("tableName", Str("games"))>>, o) : o \in OptFlags}
    \cup {RealValidator("literal", <<P("value", Str(x))>>, o) : x \in {"Win", "Loss"}, o \in OptFlags}

MockLeaves ==
    {Type(c) : c \in PrimitiveCtors}
    \cup {EvalMock(DId("games")), EvalMock(DLit("Win")),
          Obj(<<P("type", Str("string")), P("isConvexValidator", False)>>)}

\* Values that are none of the three shapes, and real validators whose kind
\* is unknown or whose payload is missing.
OddInputs ==
    {Null, Undefined, Str("games"), Str(""), Num("1"), True, False,
     Arr(<<>>), Arr(<<Str("a")>>), Arr(<<RealValidator("string", <<>>, "required")>>)}
    \cup {RealValidator("bogus", <<>>, o) : o \in OptFlags}
    \cup {Obj(<<P("isConvexValidator", True)>>)}
    \cup {RealValidator("union", <<>>, o) : o \in OptFlags}
    \cup {RealValidator("array", <<>>, "required"), RealValidator("object", <<>>, "required"),
          RealValidator("record", <<>>, "required")}

\* The field values objects are built from: real, mock and raw, with the
\* numeric kind, an optional, a literal and two unrecognized values.
FieldVals ==
    {RealValidator("float64", <<>>, "required"), RealValidator("string", <<>>, "optional"),
     RealValidator("literal", <<P("value", Str("Win"))>>, "required"),
     Type("number"), RawMapping(DObj(<<P("a", D0("string"))>>)),
     EvalReal(DArr(D0("float64"))), Null, RealValidator("bogus", <<>>, "required")}

EntrySeqs ==
    {[i \in 1..Len(pr[1]) |-> P(pr[1][i], pr[2][i])] :
        pr \in {q \in NameSeqs \X SeqsUpTo(FieldVals, MaxFields) : Len(q[1]) = Len(q[2])}}
    \cup {<<>>}

\* One field set in each object shape
ObjectInputs ==
    UNION {{Obj(es),
            RealValidator("object", <<P("fields", Obj(es))>>, "required"),
            RealValidator("object", <<P("fields", Obj(es))>>, "optional"),
            Obj(<<P("type", Str("object")), P("properties", Obj(es))>>)} : es \in EntrySeqs}

\* Members of tagged unions: real objects with a literal `type` field, alone
\* or before or after another field.
TaggedMembers ==
    UNION {{EvalReal(DObj(<<P("type", DLit(tag))>>)),
            EvalReal(DObj(<<P("type", DLit(tag)), P("bonus", D0("number"))>>)),
            EvalReal(DObj(<<P("penalty", D0("number")), P("type", DLit(tag))>>))} :
                tag \in {"Win", "Loss", "Draw"}}

MemberSeqs == {<<>>} \cup SeqsUpTo(FieldVals, MaxMembers) \cup SeqsUpTo(TaggedMembers, MaxMembers)

UnionInputs ==
    {RealValidator("union", <<P("members", Arr(ms))>>, o) : ms \in MemberSeqs, o \in OptFlags}
    \cup {Obj(<<P("type", Str("union")), P("variants", Arr(ms))>>) : ms \in SeqsUpTo(MockLeaves, 1)}

ContainerInputs ==
    {RealValidator("array", <<P("element", x)>>, o) : x \in FieldVals \cup TaggedMembers, o \in OptFlags}
    \cup {RealValidator("record", <<P("key", x), P("value", y)>>, "required") : x, y \in FieldVals}
    \cup {Obj(<<P("type", Str("optional")), P("inner", x)>>) : x \in MockLeaves \cup FieldVals}
    \cup {Obj(<<P("type", Str("array")), P("elements", x)>>) : x \in MockLeaves}

\* Two levels of nesting: containers of containers
NestedInputs ==
    LET inner == {EvalReal(DObj(<<P("a", D0("float64"))>>)),
                  EvalReal(DUni(<<D0("float64"), D0("string")>>)),
                  EvalReal(DOpt(DArr(D0("float64")))),
                  EvalReal(DRec(D0("string"), D0("float64"))),
                  RawMapping(DObj(<<P("b", D0("float64")), P("a", DOpt(D0("string")))>>)),
                  Obj(<<P("type", Str("object")),
                        P("properties", Obj(<<P("a", RealValidator("string", <<>>, "required"))>>))>>),
                  EvalMock(DObj(<<P("a", DOpt(D0("float64")))>>))}
    IN  UNION {{Obj(<<P(n, x)>>),
                RealValidator("object", <<P("fields", Obj(<<P(n, x)>>))>>, "required"),
                RealValidator("array", <<P("element", x)>>, "required"),
                RealValidator("union", <<P("members", Arr(<<x, RealValidator("null", <<>>, "required")>>))>>, "required"),
                RealValidator("record", <<P("key", RealValidator("string", <<>>, "required")), P("value", x)>>, "optional")}
               : n \in FieldNames, x \in inner}

NormInputs ==
    RealLeaves \cup MockLeaves \cup OddInputs \cup ObjectInputs \cup UnionInputs
    \cup ContainerInputs \cup NestedInputs

ShapesIdle == decl = D0("none") /\ outs = [sh \in Shapes |-> Pending]

InitNorm ==
    /\ val \in NormInputs
    /\ out = Pending /\ again = Pending /\ npc = "ready"
    /\ ShapesIdle
    /\ DriverIdle
    /\ SchemaIdle

\* out = normalize(val)
Normalize ==
    /\ npc = "ready"
    /\ out' = normalize(val)
    /\ npc' = IF out' = Thrown THEN "threw" ELSE "done"
    /\ UNCHANGED <<val, again, decl, outs, driverVars, schemaVars>>

\* again = normalize(out)
Renormalize ==
    /\ npc = "done"
    /\ again' = normalize(out)
    /\ npc' = "twice"
    /\ UNCHANGED <<val, out, decl, outs, driverVars, schemaVars>>

NextNorm == Normalize \/ Renormalize

SpecNorm == InitNorm /\ [][NextNorm]_vars

Normalized == npc \in {"done", "twice"}

(***************************************************************************)
(* The shapes as the claims name them                                      *)
(***************************************************************************)
HasMarker(x) == IsObjectLike(x) /\ Get(x, "isConvexValidator") = True

HasStringType(x) == IsObjectLike(x) /\ Get(x, "type").t = "string"

IsCanonicalShaped(x) == HasStringType(x) /\ ~HasMarker(x)

IsRaw(x) == x.t = "object" /\ ~HasMarker(x) /\ ~HasStringType(x)

IsRealOf(x, kind) == HasMarker(x) /\ Get(x, "kind") = Str(kind)

Flagged(x) == Get(x, "isOptional") = Str("optional")

\* The descriptor of node x in result y, beneath x's optional wrapper if any
Unwrap(x, y) == IF Flagged(x) THEN Get(y, "inner") ELSE y

\* C2: the output object's field sequence is the input's field sequence (raw
\* mapping or real object), each field holding its normalized value, and a
\* union's variants are its normalized members in the same order.
OrderPreserved ==
    Normalized =>
        /\ IsRaw(val) =>
             /\ Get(out, "type") = Str("object")
             /\ Keys(Get(out, "properties")) = Keys(val)
             /\ \A i \in 1..Len(val.ents) :
                   Get(out, "properties").ents[i].v = normalize(val.ents[i].v)
        /\ (IsRealOf(val, "object") /\ Get(val, "fields").t = "object") =>
             LET d == Unwrap(val, out)
                 fields == Get(val, "fields")
             IN  /\ Get(d, "type") = Str("object")
                 /\ Keys(Get(d, "properties")) = Keys(fields)
                 /\ \A i \in 1..Len(fields.ents) :
                       Get(d, "properties").ents[i].v = normalize(fields.ents[i].v)
        /\ (IsRealOf(val, "union") /\ Get(val, "members").t = "array") =>
             LET d == Unwrap(val, out)
                 members == ArrItems(Get(val, "members"))
             IN  /\ Get(d, "type") = Str("union")
                 /\ Get(d, "variants").t = "array"
                 /\ Len(Get(d, "variants").ents) = Len(members)
                 /\ \A i \in 1..Len(members) :
                       ArrItems(Get(d, "variants"))[i] = normalize(members[i])

\* A real object declared [type, a] came out with the fields [type, a].
OrderWitness ==
    /\ Normalized /\ IsRealOf(val, "object")
    /\ Keys(Get(val, "fields")) = <<"type", "a">>
    /\ Keys(Get(out, "properties")) = <<"type", "a">>
    /\ Get(val, "fields").ents[1].v # Get(val, "fields").ents[2].v

\* A real union (itself and its members not flagged optional) whose members
\* are all objects with a literal-valued `type` field
IsTaggedRealUnion(x) ==
    /\ IsRealOf(x, "union") /\ ~Flagged(x)
    /\ Get(x, "members").t = "array" /\ Get(x, "members").ents # <<>>
    /\ \A i \in 1..Len(Get(x, "members").ents) :
          LET m == Get(x, "members").ents[i].v
          IN  /\ IsRealOf(m, "object") /\ ~Flagged(m)
              /\ IsRealOf(Get(Get(m, "fields"), "type"), "literal")
              /\ ~Flagged(Get(Get(m, "fields"), "type"))

\* C3: a real tagged union normalizes to a union of as many object
\* descriptors, in order, each with its `type` field a literal descriptor of
\* the original value.
TaggedUnionPreserved ==
    (Normalized /\ IsTaggedRealUnion(val)) =>
        LET members == ArrItems(Get(val, "members"))
        IN  /\ Get(out, "type") = Str("union")
            /\ Get(out, "variants").t = "array"
            /\ Len(Get(out, "variants").ents) = Len(members)
            /\ \A i \in 1..Len(members) :
                  LET variant == ArrItems(Get(out, "variants"))[i]
                  IN  /\ Get(variant, "type") = Str("object")
                      /\ Keys(Get(variant, "properties")) = Keys(Get(members[i], "fields"))
                      /\ Get(Get(variant, "properties"), "type") =
                            Obj(<<P("type", Str("literal")),
                                  P("value", Get(Get(Get(members[i], "fields"), "type"), "value"))>>)

\* A two-member tagged union with different tags has been normalized.
TaggedUnionWitness ==
    /\ Normalized /\ IsTaggedRealUnion(val)
    /\ Len(Get(val, "members").ents) >= 2
    /\ Get(Get(ArrItems(Get(out, "variants"))[1], "properties"), "type") = EvalMock(DLit("Win"))
    /\ Get(Get(ArrItems(Get(out, "variants"))[2], "properties"), "type") = EvalMock(DLit("Loss"))

\* C4: a real validator flagged optional comes out as exactly one optional
\* wrapper around what it normalizes to when not flagged; a real validator
\* that is not flagged comes out with no optional wrapper at that node.
OptionalExactlyOnce ==
    (Normalized /\ HasMarker(val)) =>
        /\ Flagged(val) =>
             /\ Keys(out) = <<"type", "inner">>
             /\ Get(out, "type") = Str("optional")
             /\ Get(out, "inner") = normalize(PropSet(val, "isOptional", Str("required")))
             /\ Get(Get(out, "inner"), "type") # Str("optional")
        /\ ~Flagged(val) => Get(out, "type") # Str("optional")

\* A flagged real object and a flagged real leaf have been normalized.
OptionalWitness ==
    /\ Normalized /\ HasMarker(val) /\ Flagged(val)
    /\ Get(val, "kind") = Str("object") /\ Get(val, "fields").ents # <<>>
    /\ Get(out, "type") = Str("optional")
    /\ Get(Get(out, "inner"), "type") = Str("object")

RECURSIVE Float64MapsTo(_, _, _)
\* In result y of input x, every real float64 node the normalizer descends
\* to (through real validators and raw mappings) is the descriptor `name`.
Float64MapsTo(x, y, name) ==
    IF IsCanonicalShaped(x) THEN TRUE
    ELSE IF HasMarker(x) THEN
        LET d == Unwrap(x, y)
            kind == Get(x, "kind").s
        IN  CASE kind = "float64" -> d = Type(name)
              [] kind = "object" /\ Get(x, "fields").t = "object" ->
                   \A i \in 1..Len(Get(x, "fields").ents) :
                      Float64MapsTo(Get(x, "fields").ents[i].v,
                                    Get(Get(d, "properties"), Get(x, "fields").ents[i].k), name)
              [] kind = "array" -> Float64MapsTo(Get(x, "element"), Get(d, "elements"), name)
              [] kind = "union" /\ Get(x, "members").t = "array" ->
                   /\ Len(Get(d, "variants").ents) = Len(Get(x, "members").ents)
                   /\ \A i \in 1..Len(Get(x, "members").ents) :
                         Float64MapsTo(Get(x, "members").ents[i].v, Get(d, "variants").ents[i].v, name)
              [] kind = "record" ->
                   /\ Float64MapsTo(Get(x, "key"), Get(d, "keyType"), name)
                   /\ Float64MapsTo(Get(x, "value"), Get(d, "valueType"), name)
              [] OTHER -> TRUE
    ELSE IF IsRaw(x) THEN
        \A i \in 1..Len(x.ents) :
            Float64MapsTo(x.ents[i].v, Get(Get(y, "properties"), x.ents[i].k), name)
    ELSE TRUE

MatchesNoShape(x) ==
    \/ ~IsObjectLike(x)
    \/ x.t = "array"
    \/ /\ HasMarker(x)
       /\ \/ Get(x, "kind").s \notin RealKinds \cup {"id", "literal", "object", "array", "union", "record"}
          \/ Get(x, "kind") = Str("union") /\ ~Has(x, "members")

\* C6: normalize returns for every value that matches none of the shapes,
\* and what it returns is the `any` descriptor (beneath the optional wrapper
\* of a flagged real validator).
NormalizeNeverFails ==
    (npc # "ready" /\ MatchesNoShape(val)) =>
        /\ out # Thrown
        /\ Unwrap(val, out) = AnyD

\* C7: a value with a string discriminant and no real-validator marker is
\* returned unchanged, and normalizing the result again changes nothing.
IdempotentOnCanonical ==
    (Normalized /\ IsCanonicalShaped(val)) =>
        /\ out = val
        /\ npc = "twice" => again = out

\* An object descriptor holding a real validator went through twice unchanged.
IdempotentWitness ==
    /\ npc = "twice" /\ IsCanonicalShaped(val)
    /\ Get(val, "type") = Str("object")
    /\ HasMarker(Get(Get(val, "properties"), "a"))
    /\ again = val

RECURSIVE DeepCanonical(_)
\* Every node of y is a canonical descriptor: a string discriminant, no
\* marker, none of the real library's kind / fields / members.
DeepCanonical(y) ==
    /\ IsCanonicalShaped(y)
    /\ ~Has(y, "kind") /\ ~Has(y, "fields") /\ ~Has(y, "members")
    /\ LET ty == Get(y, "type").s
       IN  CASE ty = "optional" -> DeepCanonical(Get(y, "inner"))
             [] ty = "array" -> DeepCanonical(Get(y, "elements"))
             [] ty = "object" ->
                  /\ Get(y, "properties").t = "object"
                  /\ \A i \in 1..Len(Get(y, "properties").ents) :
                        DeepCanonical(Get(y, "properties").ents[i].v)
             [] ty = "record" -> DeepCanonical(Get(y, "keyType")) /\ DeepCanonical(Get(y, "valueType"))
             [] ty = "union" ->
                  /\ Get(y, "variants").t = "array"
                  /\ \A i \in 1..Len(Get(y, "variants").ents) :
                        DeepCanonical(Get(y, "variants").ents[i].v)
             [] OTHER -> TRUE

RECURSIVE LegalMix(_)
\* x is built from the three legal shapes, each nested value again one of them.
LegalMix(x) ==
    IF IsCanonicalShaped(x) THEN
        LET ty == Get(x, "type").s
        IN  CASE ty = "optional" -> LegalMix(Get(x, "inner"))
              [] ty = "array" -> LegalMix(Get(x, "elements"))
              [] ty = "object" ->
                   /\ Get(x, "properties").t = "object"
                   /\ \A i \in 1..Len(Get(x, "properties").ents) : LegalMix(Get(x, "properties").ents[i].v)
              [] ty = "record" -> LegalMix(Get(x, "keyType")) /\ LegalMix(Get(x, "valueType"))
              [] ty = "union" ->
                   /\ Get(x, "variants").t = "array"
                   /\ \A i \in 1..Len(Get(x, "variants").ents) : LegalMix(Get(x, "variants").ents[i].v)
              [] OTHER -> TRUE
    ELSE IF HasMarker(x) THEN
        LET kind == Get(x, "kind").s
        IN  CASE kind \in RealKinds \cup {"id", "literal"} -> TRUE
              [] kind = "object" ->
                   /\ Get(x, "fields").t = "object"
                   /\ \A i \in 1..Len(Get(x, "fields").ents) : LegalMix(Get(x, "fields").ents[i].v)
              [] kind = "array" -> LegalMix(Get(x, "element"))
              [] kind = "union" ->
                   /\ Get(x, "members").t = "array"
                   /\ \A i \in 1..Len(Get(x, "members").ents) : LegalMix(Get(x, "members").ents[i].v)
              [] kind = "record" -> LegalMix(Get(x, "key")) /\ LegalMix(Get(x, "value"))
              [] OTHER -> FALSE
    ELSE IF IsRaw(x) THEN \A i \in 1..Len(x.ents) : LegalMix(x.ents[i].v)
    ELSE FALSE

RECURSIVE DescriptorsAreDeep(_)
\* Every node of x that has a string discriminant and no marker is
\* canonical all the way down.
DescriptorsAreDeep(x) ==
    IF IsCanonicalShaped(x) THEN DeepCanonical(x)
    ELSE IF HasMarker(x) THEN
        LET kind == Get(x, "kind").s
        IN  CASE kind = "object" ->
                   \A i \in 1..Len(Get(x, "fields").ents) : DescriptorsAreDeep(Get(x, "fields").ents[i].v)
              [] kind = "array" -> DescriptorsAreDeep(Get(x, "element"))
              [] kind = "union" ->
                   \A i \in 1..Len(Get(x, "members").ents) : DescriptorsAreDeep(Get(x, "members").ents[i].v)
              [] kind = "record" -> DescriptorsAreDeep(Get(x, "key")) /\ DescriptorsAreDeep(Get(x, "value"))
              [] OTHER -> TRUE
    ELSE IF IsRaw(x) THEN \A i \in 1..Len(x.ents) : DescriptorsAreDeep(x.ents[i].v)
    ELSE TRUE

\* C8 as stated: for every input built from any mix of the three shapes,
\* every node of the result is a canonical descriptor.
AlwaysCanonical == (Normalized /\ LegalMix(val)) => DeepCanonical(out)

\* C8 as amended: for every input built from the three shapes in which each
\* node with a string discriminant and no marker is canonical all the way
\* down, every node of the result is a canonical descriptor.
CanonicalWhenDescriptorsDeep ==
    (Normalized /\ LegalMix(val) /\ DescriptorsAreDeep(val)) => DeepCanonical(out)

\* A raw mapping mixing a real validator and a descriptor came out canonical.
CanonicalWitness ==
    /\ Normalized /\ IsRaw(val) /\ LegalMix(val) /\ DescriptorsAreDeep(val)
    /\ Len(val.ents) = 2
    /\ HasMarker(val.ents[1].v) /\ IsCanonicalShaped(val.ents[2].v)
    /\ DeepCanonical(out)

(***************************************************************************)
(* The mocked convex/server (src/unnamed/part_003)                         *)
(***************************************************************************)
\* defineTable(validator): the builder that captures the field mapping
defineTable(validator) ==
    Obj(<<P("_validator", validator), P("index", Fn("index")), P("searchIndex", Fn("searchIndex"))>>)

\* A chained call that records the index on the builder.
indexRecorded(builder, args) == PropSet(builder, "indexes", args)

\* builder.index(...args) and builder.searchIndex(...args): () => builder
index(builder, args) == builder

\* The columns of a normalized table validator
ColumnsOf(normalized) ==
    LET properties == IF Get(normalized, "type") = Str("object") /\ Truthy(Get(normalized, "properties"))
                      THEN Get(normalized, "properties")
                      ELSE Obj(<<>>)
        entries == ObjectEntries(properties)
    IN  [i \in 1..Len(entries) |->
            Obj(<<P("name", Str(entries[i].k)), P("data_type", entries[i].v)>>)]

RECURSIVE DefineTables(_, _)
\* The loop of defineSchema over Object.entries(tables), from table list
\* tbls: the list afterwards, and whether the loop was left by an exception.
DefineTables(tbls, entries) ==
    IF entries = <<>> THEN [tables |-> tbls, threw |-> FALSE]
    ELSE LET table == Head(entries).v
             normalized == IF table.t \in {"undefined", "null"} THEN Thrown
                           ELSE normalize(Get(table, "_validator"))
         IN  IF normalized = Thrown THEN [tables |-> tbls, threw |-> TRUE]
             ELSE DefineTables(
                      Append(tbls, Obj(<<P("name", Str(Head(entries).k)),
                                         P("columns", Arr(ColumnsOf(normalized)))>>)),
                      Tail(entries))

\* A registrar that starts the table list afresh on every call.
defineSchemaReplacing(tbls, mapping) == DefineTables(<<>>, ObjectEntries(mapping))

\* defineSchema(mapping) on table list tbls
defineSchema(tbls, mapping) == DefineTables(tbls, ObjectEntries(mapping))

\* makeFunctionRegistrar(type)(config): the tagged value; config.handler is kept, not called
makeFunctionRegistrar(type, config) == Obj(<<P("__type", Str(type)), P("__config", config)>>)

\* A value a function registrar returned
ByRegistrar(value) == value.t = "object" /\ Keys(value) = <<"__type", "__config">>

\* A registrar that runs the handler it is given.
RegistrarInvokesHandler(type, config) ==
    IF Get(config, "handler").t = "function" THEN <<Get(config, "handler").s>> ELSE <<>>

\* The functions of config that makeFunctionRegistrar(type)(config) calls:
\* its body is one object literal, which calls nothing
RegistrarInvokes(type, config) == <<>>

RECURSIVE InvokedByExports(_)
\* The functions called by the registrar calls that made a module's exports
InvokedByExports(exports) ==
    IF exports = <<>> THEN <<>>
    ELSE (IF ByRegistrar(Head(exports).v)
          THEN RegistrarInvokes(Get(Head(exports).v, "__type").s, Get(Head(exports).v, "__config"))
          ELSE <<>>) \o InvokedByExports(Tail(exports))

(***************************************************************************)
(* Source modules.  A module is what its execution does: the defineSchema  *)
(* calls it makes, whether it writes to standard output, whether it ends   *)
(* by throwing (or cannot be resolved), and the bindings it exports.       *)
(***************************************************************************)
GamesTable ==
    defineTable(RawMapping(DObj(<<P("win_count", D0("number")),
                                  P("status", DUni(<<DLit("active"), DLit("finished")>>))>>)))

PlayersTable == defineTable(EvalReal(DObj(<<P("name", D0("string")), P("score", DOpt(D0("float64")))>>)))

Handler == Fn("handler")

WinGame == makeFunctionRegistrar("mutation", Obj(<<P("handler", Handler)>>))

GetByStatus ==
    makeFunctionRegistrar("query",
        Obj(<<P("args", RawMapping(DObj(<<P("status", DUni(<<DLit("active"), DLit("finished")>>))>>))),
              P("returns", EvalReal(DArr(D0("string")))),
              P("handler", Handler)>>))

UpdateGameStatus ==
    makeFunctionRegistrar("mutation",
        Obj(<<P("args", EvalReal(DObj(<<P("result",
                    DUni(<<DObj(<<P("type", DLit("Win")), P("bonus", D0("number"))>>),
                           DObj(<<P("type", DLit("Draw"))>>)>>))>>))),
              P("returns", EvalReal(D0("null"))),
              P("handler", Handler)>>))

\* A module that cannot be loaded
ModMissing == [calls |-> <<>>, prints |-> FALSE, fails |-> TRUE, exports |-> <<>>]

ModSchema ==
    [calls |-> <<Obj(<<P("games", GamesTable), P("players", PlayersTable)>>)>>,
     prints |-> FALSE, fails |-> FALSE,
     exports |-> <<P("gameStatus", EvalReal(DUni(<<DLit("active"), DLit("finished")>>)))>>]

\* A schema module that throws after it has registered its tables
ModSchemaThrows == [ModSchema EXCEPT !.fails = TRUE, !.exports = <<>>]

ModGames ==
    [calls |-> <<>>, prints |-> FALSE, fails |-> FALSE,
     exports |-> <<P("winGame", WinGame), P("getGameData", Fn("getGameData")),
                   P("getByStatus", GetByStatus)>>]

\* A function module that logs while it loads and registers a table of its own
ModPlayers ==
    [calls |-> <<Obj(<<P("games", GamesTable)>>)>>, prints |-> TRUE, fails |-> FALSE,
     exports |-> <<P("updateGameStatus", UpdateGameStatus), P("limit", Num("1")),
                   P("nothing", Null)>>]

\* A function module whose registered functions declare args that are an
\* optional object, a union, a scalar descriptor and a plain string
ModArgs ==
    [calls |-> <<>>, prints |-> FALSE, fails |-> FALSE,
     exports |->
        <<P("optionalArgs", makeFunctionRegistrar("query",
              Obj(<<P("args", EvalReal(DOpt(DObj(<<P("id", D0("string"))>>)))),
                    P("handler", Handler)>>))),
          P("unionArgs", makeFunctionRegistrar("action",
              Obj(<<P("args", EvalReal(DUni(<<DLit("active"), DLit("finished")>>))),
                    P("handler", Handler)>>))),
          P("scalarArgs", makeFunctionRegistrar("internalQuery",
              Obj(<<P("args", Type("string")), P("handler", Handler)>>))),
          P("anyArgs", makeFunctionRegistrar("internalMutation",
              Obj(<<P("args", Str("none")), P("handler", Handler)>>)))>>]

Modules == {ModMissing, ModSchema, ModSchemaThrows, ModGames, ModPlayers, ModArgs}

\* A module that exports, next to a registered function, a plain object
\* which has a __type property of its own
ModMeta ==
    [calls |-> <<>>, prints |-> FALSE, fails |-> FALSE,
     exports |-> <<P("winGame", WinGame),
                   P("tableInfo", Obj(<<P("__type", Str("table")), P("name", Str("games"))>>))>>]

(***************************************************************************)
(* The extraction driver (src/js/extractor.ts, lines 1-153)                *)
(***************************************************************************)
MaxArgs == 3

PathSchema == <<"c", "/", "s", ".", "t", "s">>

PathGames == <<"g", ".", "t", "s">>

PathPlayers == <<"c", "\\", "p", ".", "j", "s">>

\* The path of a module with metadata exports
PathMeta == <<"m", ".", "t", "s">>

\* The paths a caller passes; <<>> is the empty string
Paths == {<<>>, PathSchema, PathGames, PathPlayers}

Argvs == {<<>>} \cup SeqsUpTo(Paths, MaxArgs)

RECURSIVE Join(_)
\* The string of a sequence of characters
Join(chars) == IF chars = <<>> THEN "" ELSE Head(chars) \o Join(Tail(chars))

\* fp.split("/") and its last part
LastPart(fp) ==
    LET slashes == {i \in 1..Len(fp) : fp[i] = "/"}
        last == IF slashes = {} THEN 0 ELSE CHOOSE i \in slashes : \A j \in slashes : j <= i
    IN  SubSeq(fp, last + 1, Len(fp))

\* rawName.replace(/\.ts$/, "")
StripTs(rawName) ==
    IF Len(rawName) >= 3 /\ SubSeq(rawName, Len(rawName) - 2, Len(rawName)) = <<".", "t", "s">>
    THEN SubSeq(rawName, 1, Len(rawName) - 3)
    ELSE rawName

FileNameOf(fp) == Join(StripTs(LastPart(fp)))

\* A resolution rule: the specifier pattern as a sequence of tokens, whether
\* it must equal the whole specifier (build.module) or may occur anywhere in
\* it (onResolve with an unanchored filter), and the module served.
Rule(pattern, exact, target) == [pattern |-> pattern, exact |-> exact, target |-> target]

\* The mocked convex/server: the instrumented registrars and builders
MockServer == "mocks/convex_server.ts"

\* The mocked convex/values: the instrumented primitive constructors
MockValues == "mocks/convex_values.ts"

\* The stand-in for generated api and dataModel modules
MockApi == "mocks/convex_api.ts"

\* What a specifier resolves to when no rule matches: the installed package
\* or the file on disk
RealModule == "real"

\* The three rules for generated scaffolding
ScaffoldingRules ==
    <<Rule(<<"/", "_generated", "/", "api">>, FALSE, MockApi),
      Rule(<<"/", "_generated", "/", "server">>, FALSE, MockServer),
      Rule(<<"/", "_generated", "/", "dataModel">>, FALSE, MockApi)>>

\* A plugin that leaves the generated data model to the real resolver.
BuiltinRulesWithoutDataModel ==
    <<Rule(<<"convex", "/", "server">>, TRUE, MockServer)>> \o SubSeq(ScaffoldingRules, 1, 2)

\* build.module("convex/server") and the three onResolve rules, in
\* registration order; convex/values is not registered
BuiltinRules == <<Rule(<<"convex", "/", "server">>, TRUE, MockServer)>> \o ScaffoldingRules

\* TYPEGEN_HELPER_STUBS: unset, or a JSON object of one pattern
HelperStubs ==
    {<<>>,
     <<Rule(<<"helpers", "/", "auth">>, FALSE, "stubs/auth.ts")>>,
     <<Rule(<<"_generated">>, FALSE, "stubs/generated.ts")>>}

\* Whether the token sequence sub occurs in s
Occurs(sub, s) == \E i \in 0..(Len(s) - Len(sub)) : SubSeq(s, i + 1, i + Len(sub)) = sub

Matches(rule, request) ==
    IF rule.exact THEN request = rule.pattern ELSE Occurs(rule.pattern, request)

\* The module a specifier resolves to under the installed rules: the first
\* rule that matches, in registration order, else the real resolver
Resolve(installed, request) ==
    LET hits == {i \in 1..Len(installed) : Matches(installed[i], request)}
    IN  IF hits = {} THEN RealModule
        ELSE installed[CHOOSE i \in hits : \A j \in hits : i <= j].target

UsageMessage == Str("Usage: bun run extractor.ts <schema.ts> [func1.ts ...]")

\* The line a loading module logs
ModuleLog == Str("loading")

\* The uncaught error the runtime reports before it exits
UncaughtError == Str("error: uncaught")

RECURSIVE ToJSON(_)
\* JSON.stringify, as the value a reader parses back: properties holding
\* undefined or a function are left out, such array items become null.
ToJSON(x) ==
    LET Kept(e) == e.v.t \notin {"undefined", "function"}
        kept == SelectSeq(x.ents, Kept)
    IN  CASE x.t = "object" -> Obj([i \in 1..Len(kept) |-> P(kept[i].k, ToJSON(kept[i].v))])
          [] x.t = "array" ->
               Arr([i \in 1..Len(x.ents) |->
                       IF Kept(x.ents[i]) THEN ToJSON(x.ents[i].v) ELSE Null])
          [] OTHER -> x

\* A test that takes every object for a registered function.
IsTaggedAnyObject(value) == IsObjectLike(value)

\* value !== null && typeof value === "object" && "__type" in value
IsTagged(value) == IsObjectLike(value) /\ Has(value, "__type")

NullOrUndefined(x) == x.t \in {"undefined", "null"}

\* Params taken from whatever properties the normalized args have.
ParamsOfAnyShape(normalized) ==
    LET entries == ObjectEntries(normalized)
    IN  [i \in 1..Len(entries) |-> Obj(<<P("name", Str(entries[i].k)), P("data_type", entries[i].v)>>)]

\* The params built from the normalized args
ParamsOf(normalized) ==
    LET properties == Get(normalized, "properties")
        entries == ObjectEntries(properties)
    IN  IF Get(normalized, "type") = Str("object") /\ Truthy(properties) /\ IsObjectLike(properties)
        THEN [i \in 1..Len(entries) |-> Obj(<<P("name", Str(entries[i].k)), P("data_type", entries[i].v)>>)]
        ELSE <<>>

\* A return type that is normalized even when none was declared.
ReturnTypeAlwaysNormalized(returnsRaw) == normalize(returnsRaw)

\* returnsRaw !== undefined && returnsRaw !== null ? normalize(returnsRaw) : null
ReturnTypeOf(returnsRaw) == IF NullOrUndefined(returnsRaw) THEN Null ELSE normalize(returnsRaw)

\* The FunctionRecord pushed for a tagged export, or Thrown
FunctionRecordOf(exportName, def, fileName) ==
    LET config == IF NullOrUndefined(Get(def, "__config")) THEN Obj(<<>>) ELSE Get(def, "__config")
        argsRaw == Get(config, "args")
        normalized == IF NullOrUndefined(argsRaw) THEN Undefined ELSE normalize(argsRaw)
        params == IF NullOrUndefined(argsRaw) \/ normalized = Thrown THEN <<>> ELSE ParamsOf(normalized)
        returnsRaw == Get(config, "returns")
        returnType == ReturnTypeOf(returnsRaw)
    IN  IF normalized = Thrown \/ returnType = Thrown THEN Thrown
        ELSE Obj(<<P("name", Str(exportName)), P("type", Get(def, "__type")),
                   P("params", Arr(params)), P("return_type", returnType),
                   P("file_name", Str(fileName))>>)

RECURSIVE ScanExports(_, _, _)
\* for (const [exportName, value] of Object.entries(mod)): the records
\* pushed, and whether the loop was left by an exception
ScanExports(exports, fileName, pushed) ==
    IF exports = <<>> THEN [records |-> pushed, threw |-> FALSE]
    ELSE IF ~IsTagged(Head(exports).v) THEN ScanExports(Tail(exports), fileName, pushed)
    ELSE LET r == FunctionRecordOf(Head(exports).k, Head(exports).v, fileName)
         IN  IF r = Thrown THEN [records |-> pushed, threw |-> TRUE]
             ELSE ScanExports(Tail(exports), fileName, Append(pushed, r))

RECURSIVE RunCalls(_, _)
\* The defineSchema calls of a module body, in order
RunCalls(tbls, calls) ==
    IF calls = <<>> THEN [tables |-> tbls, threw |-> FALSE]
    ELSE LET r == defineSchema(tbls, Head(calls))
         IN  IF r.threw THEN r ELSE RunCalls(r.tables, Tail(calls))

InCache(fp) == \E i \in 1..Len(cache) : cache[i].path = fp

Cached(fp) == cache[CHOOSE i \in 1..Len(cache) : cache[i].path = fp]

\* The modules a path may hold; the empty path resolves to nothing
ModulesAt(fp) ==
    IF fp = <<>> THEN {ModMissing}
    ELSE IF fp = PathMeta THEN Modules \cup {ModMeta}
    ELSE Modules

\* Executing module m for path fp: its effects and its outcome
Execute(fp, m) ==
    LET r == RunCalls(tables, m.calls)
        ok == ~r.threw /\ ~m.fails
        exports == IF ok THEN m.exports ELSE <<>>
    IN  [ok |-> ok, exports |-> exports, tables |-> r.tables,
         invoked |-> invoked \o InvokedByExports(m.exports),
         stdout |-> IF m.prints THEN Append(stdout, ModuleLog) ELSE stdout,
         cache |-> Append(cache, [path |-> fp, ok |-> ok, exports |-> exports])]

\* await import(fp): a path already imported is answered from the registry
\* without running the module again
Import(fp) ==
    IF InCache(fp)
    THEN {[ok |-> Cached(fp).ok, exports |-> Cached(fp).exports, tables |-> tables,
           invoked |-> invoked,
           stdout |-> stdout, cache |-> cache]}
    ELSE {Execute(fp, m) : m \in ModulesAt(fp)}

\* Where the driver goes after a load that swallows failures
ContinueAnyway(ok) == "funcs"

\* Where the driver goes after an import and the work on it: a rejected
\* top-level await ends the process
AfterLoad(ok) == IF ok THEN "funcs" ELSE "exited"

\* const [schemaPath, ...functionPaths] = process.argv.slice(2); without
\* arguments schemaPath is undefined, which the model writes as the empty
\* path: both are falsy and neither can be imported.
SchemaPath == IF argv = <<>> THEN <<>> ELSE argv[1]

\* A test that only catches an empty first argument.
NoSchemaPathEmptyOnly == IF argv = <<>> THEN FALSE ELSE argv[1] = <<>>

\* !schemaPath
NoSchemaPath == SchemaPath = <<>>

IsDocument(x) == x.t = "object" /\ Has(x, "schema") /\ Has(x, "functions")

\* A loop that walks the function paths from the last to the first.
FunctionPathReversed(i) == argv[Len(argv) + 2 - i]

\* for (const fp of functionPaths): the path of the iteration at argv index i
FunctionPath(i) == argv[i]

InitDriver ==
    /\ argv \in Argvs
    /\ pc = "start" /\ rules = <<>> /\ idx = 0 /\ cache = <<>>
    /\ tables = <<>> /\ functions = <<>> /\ stdout = <<>> /\ stderr = <<>> /\ exitCode = -1
    /\ invoked = <<>>
    /\ NormIdle /\ ShapesIdle /\ SchemaIdle

\* plugin({ setup }) : the rules are registered before anything is imported
InstallInterception ==
    /\ pc = "start"
    /\ \E stubs \in HelperStubs : rules' = BuiltinRules \o stubs
    /\ pc' = "args"
    /\ UNCHANGED <<argv, idx, cache, tables, functions, stdout, stderr, exitCode, invoked,
                   normVars, shapeVars, schemaVars>>

\* if (!schemaPath) { console.error(usage); process.exit(1) }
UsageError ==
    /\ pc = "args"
    /\ NoSchemaPath
    /\ stderr' = Append(stderr, UsageMessage)
    /\ exitCode' = 1
    /\ pc' = "exited"
    /\ UNCHANGED <<argv, rules, idx, cache, tables, functions, stdout, invoked, normVars, shapeVars, schemaVars>>

\* await import(schemaPath)
ImportSchema ==
    /\ pc = "args"
    /\ ~NoSchemaPath
    /\ \E l \in Import(SchemaPath) :
          /\ cache' = l.cache /\ tables' = l.tables /\ stdout' = l.stdout
          /\ invoked' = l.invoked
          /\ pc' = AfterLoad(l.ok)
          /\ idx' = 2
          /\ IF pc' = "exited"
             THEN stderr' = Append(stderr, UncaughtError) /\ exitCode' = 1
             ELSE UNCHANGED <<stderr, exitCode>>
    /\ UNCHANGED <<argv, rules, functions, normVars, shapeVars, schemaVars>>

\* One iteration of for (const fp of functionPaths)
ImportFunctions ==
    /\ pc = "funcs" /\ idx <= Len(argv)
    /\ \E l \in Import(FunctionPath(idx)) :
          LET scan == ScanExports(l.exports, FileNameOf(FunctionPath(idx)), <<>>)
          IN  /\ cache' = l.cache /\ tables' = l.tables /\ stdout' = l.stdout
              /\ invoked' = l.invoked
              /\ functions' = functions \o scan.records
              /\ pc' = AfterLoad(l.ok /\ ~scan.threw)
              /\ idx' = idx + 1
              /\ IF pc' = "exited"
                 THEN stderr' = Append(stderr, UncaughtError) /\ exitCode' = 1
                 ELSE UNCHANGED <<stderr, exitCode>>
    /\ UNCHANGED <<argv, rules, normVars, shapeVars, schemaVars>>

\* console.log(JSON.stringify({ schema: __schema, functions }))
PrintOutput ==
    /\ pc = "funcs" /\ idx > Len(argv)
    /\ stdout' = Append(stdout,
          ToJSON(Obj(<<P("schema", Obj(<<P("tables", Arr(tables))>>)),
                       P("functions", Arr(functions))>>)))
    /\ exitCode' = 0
    /\ pc' = "exited"
    /\ UNCHANGED <<argv, rules, idx, cache, tables, functions, stderr, invoked, normVars, shapeVars, schemaVars>>

Next == InstallInterception \/ UsageError \/ ImportSchema \/ ImportFunctions \/ PrintOutput

Spec == InitDriver /\ [][Next]_vars

LoadFailed == \E i \in 1..Len(cache) : ~cache[i].ok

NoDocumentWritten == \A j \in 1..Len(stdout) : ~IsDocument(stdout[j])

\* C9: once the schema module or any function module has failed to load,
\* the run has ended with a non-zero exit code and standard output holds no
\* document.
AllOrNothing ==
    LoadFailed => (pc = "exited" /\ exitCode > 0 /\ NoDocumentWritten)

\* The third module failed after two loaded and records had been pushed.
AbortWitness ==
    /\ Len(cache) = 3 /\ cache[1].ok /\ cache[2].ok /\ ~cache[3].ok
    /\ functions # <<>> /\ tables # <<>>
    /\ pc = "exited" /\ exitCode = 1 /\ NoDocumentWritten

\* C10: a run started without a schema path never loads a module and never
\* writes to standard output, and once past the argument check it has
\* written the usage message (and nothing else) to the error stream and
\* exited with a non-zero code.
UsageOnMissingSchema ==
    (argv = <<>>) =>
        /\ cache = <<>> /\ tables = <<>> /\ functions = <<>> /\ stdout = <<>>
        /\ pc \notin {"start", "args"} =>
              (pc = "exited" /\ stderr = <<UsageMessage>> /\ exitCode > 0)

\* The run without arguments has ended with the usage message.
UsageWitness ==
    /\ argv = <<>> /\ pc = "exited" /\ exitCode = 1
    /\ stderr = <<UsageMessage>> /\ stdout = <<>> /\ cache = <<>>

(***************************************************************************)
(* Output, phases and the table list                                       *)
(***************************************************************************)
\* C11: standard output stays empty until the run ends, and a run that ends
\* successfully has written exactly one entry to it, the JSON document.
OnlyDocumentOnStdout ==
    /\ pc # "exited" => stdout = <<>>
    /\ (pc = "exited" /\ exitCode = 0) => (Len(stdout) = 1 /\ IsDocument(stdout[1]))

\* The paths of the modules evaluated so far, in evaluation order
LoadedPaths == [i \in 1..Len(cache) |-> cache[i].path]

RECURSIVE FirstOccurrences(_, _)
\* The entries of seq in order, each kept at its first occurrence only
FirstOccurrences(seq, seen) ==
    IF seq = <<>> THEN <<>>
    ELSE IF Head(seq) \in seen THEN FirstOccurrences(Tail(seq), seen)
    ELSE <<Head(seq)>> \o FirstOccurrences(Tail(seq), seen \cup {Head(seq)})

\* C12: no module is loaded before the interception rules are installed;
\* the first module loaded is the schema module, and a function module is
\* only loaded after the schema load succeeded; the modules loaded so far
\* are the paths handed over so far, in the caller's order (a path given
\* twice is evaluated once, at its first position).
PhasesInOrder ==
    /\ cache # <<>> =>
          /\ Len(rules) >= Len(BuiltinRules)
          /\ SubSeq(rules, 1, Len(BuiltinRules)) = BuiltinRules
          /\ cache[1].path = argv[1]
    /\ Len(cache) > 1 => cache[1].ok
    /\ \A i \in 1..(Len(cache) - 1) : cache[i].ok
    /\ LoadedPaths = IF idx = 0 THEN <<>> ELSE FirstOccurrences(SubSeq(argv, 1, idx - 1), {})

\* Three different modules were loaded, schema first, and the run succeeded.
PhasesWitness ==
    /\ pc = "exited" /\ exitCode = 0
    /\ argv = <<PathSchema, PathPlayers, PathGames>>
    /\ LoadedPaths = argv

\* C13: no step taken after the schema load has completed changes the
\* table list.
TablesFrozenAfterSchema == [][pc = "funcs" => tables' = tables]_vars

(***************************************************************************)
(* Function records                                                        *)
(***************************************************************************)
\* The exports of a module that a registrar produced, in export order
RegisteredExports(exports) == SelectSeq(exports, LAMBDA e : ByRegistrar(e.v))

RECURSIVE ScannedExports(_)
\* The registered exports of the function modules at argv[2..j], in scan order
ScannedExports(j) ==
    IF j < 2 THEN <<>>
    ELSE ScannedExports(j - 1) \o RegisteredExports(Cached(argv[j]).exports)

\* The exports scanned so far
Scanned == ScannedExports(idx - 1)

\* C14: the records collected so far are, one for one and in order, the
\* registrar-produced exports of the function modules scanned so far: an
\* export that is a plain function, a constant, a validator or null adds no
\* record; and the run only ends with an error when a module failed to load.
UntaggedSkipped ==
    /\ [i \in 1..Len(functions) |-> Get(functions[i], "name")] =
          [i \in 1..Len(Scanned) |-> Str(Scanned[i].k)]
    /\ (exitCode = 1 /\ cache # <<>>) => LoadFailed

\* Two modules with a plain function, a constant and null among their
\* exports were scanned and contributed their three registered functions.
UntaggedWitness ==
    /\ pc = "exited" /\ exitCode = 0 /\ Len(cache) = 3
    /\ cache[2].exports = ModGames.exports /\ cache[3].exports = ModPlayers.exports
    /\ \E e \in {ModGames.exports[i] : i \in 1..Len(ModGames.exports)} : e.v.t = "function"
    /\ \E e \in {ModPlayers.exports[i] : i \in 1..Len(ModPlayers.exports)} : e.v = Null
    /\ Len(functions) = 3

\* The functions array of the document on standard output
DocumentFunctions == ArrItems(Get(stdout[Len(stdout)], "functions"))

\* C15: the record of a registered export carries the binding's name and
\* the registrar's kind; when the export declares neither args nor returns
\* its params are empty and its return_type is null; when it declares a
\* returns validator of kind null its return_type is the descriptor
\* {type: "null"}, which is not null.  The emitted document shows the same.
AbsentVersusNull ==
    /\ Len(functions) = Len(Scanned)
    /\ \A i \in 1..Len(functions) :
          LET config == Get(Scanned[i].v, "__config")
              r == functions[i]
          IN  /\ Get(r, "name") = Str(Scanned[i].k)
              /\ Get(r, "type") = Get(Scanned[i].v, "__type")
              /\ (~Has(config, "args") /\ ~Has(config, "returns")) =>
                    (Get(r, "params") = Arr(<<>>) /\ Get(r, "return_type") = Null)
              /\ IsRealOf(Get(config, "returns"), "null") =>
                    (Get(r, "return_type") = Type("null") /\ Get(r, "return_type") # Null)
    /\ (pc = "exited" /\ exitCode = 0) =>
          /\ Len(DocumentFunctions) = Len(functions)
          /\ \A i \in 1..Len(functions) :
                /\ Get(DocumentFunctions[i], "params") = Get(functions[i], "params")
                /\ Get(DocumentFunctions[i], "return_type") = Get(functions[i], "return_type")

\* The document holds winGame with no params and return_type null next to
\* updateGameStatus whose return_type is the null descriptor.
AbsentWitness ==
    /\ pc = "exited" /\ exitCode = 0 /\ Len(functions) >= 2
    /\ \E i, j \in 1..Len(DocumentFunctions) :
          /\ DocumentFunctions[i] =
                Obj(<<P("name", Str("winGame")), P("type", Str("mutation")),
                      P("params", Arr(<<>>)), P("return_type", Null),
                      P("file_name", Str("g"))>>)
          /\ Get(DocumentFunctions[j], "name") = Str("updateGameStatus")
          /\ Get(DocumentFunctions[j], "return_type") = Type("null")

RECURSIVE HoldsFunction(_)
\* Whether a function value is reachable in x
HoldsFunction(x) ==
    \/ x.t = "function"
    \/ \E i \in 1..Len(x.ents) : HoldsFunction(x.ents[i].v)

\* C16: no handler has been called, and neither the collected records nor
\* anything written to standard output holds a function that serialization
\* could reach.
HandlerNeverInvoked ==
    /\ invoked = <<>>
    /\ \A i \in 1..Len(functions) : ~HoldsFunction(functions[i])
    /\ \A i \in 1..Len(stdout) : ~HoldsFunction(stdout[i])

\* Registered functions with handlers were loaded, scanned and serialized.
HandlerWitness ==
    /\ pc = "exited" /\ exitCode = 0 /\ invoked = <<>>
    /\ Len(Scanned) >= 2
    /\ \A i \in 1..Len(Scanned) : Get(Get(Scanned[i].v, "__config"), "handler") = Handler

(***************************************************************************)
(* Schema run: a schema module evaluates mapping literals of table         *)
(* builders, chaining index calls, and hands each to defineSchema.         *)
(***************************************************************************)
MaxTables == 3

MaxChain == 2

TableNames == {"games", "players"}

\* The declarations given to defineTable
TableDecls ==
    {DObj(<<P("win_count", D0("float64")),
            P("status", DUni(<<DLit("active"), DLit("finished")>>))>>),
     DObj(<<P("name", D0("string")), P("score", DOpt(D0("number")))>>)}

\* A declaration as a raw field mapping, a real v.object() and an
\* already-built object descriptor
TableValidators ==
    {RawMapping(d) : d \in TableDecls} \cup {EvalReal(d) : d \in TableDecls}
    \cup {EvalMock(d) : d \in TableDecls}

\* The arguments of a chained call
IndexArgs == {Arr(<<Str("by_rank"), Arr(<<Str("rank")>>)>>)}

InitSchema ==
    /\ NormIdle /\ ShapesIdle /\ DriverIdle
    /\ building = <<>> /\ chain = 0 /\ spc = "literal"

\* name: defineTable(validator), the next entry of the mapping literal
DefineTableCall ==
    /\ spc \in {"literal", "called"}
    /\ \E name \in TableNames, validator \in TableValidators :
          LET sofar == IF spc = "called" THEN <<>> ELSE building
          IN  /\ \A i \in 1..Len(sofar) : sofar[i].k # name
              /\ Len(tables) + Len(sofar) < MaxTables
              /\ building' = Append(sofar, P(name, defineTable(validator)))
    /\ chain' = 0
    /\ spc' = "literal"
    /\ UNCHANGED <<normVars, shapeVars, driverVars>>

\* .index(...) or .searchIndex(...) chained on the newest builder
IndexCall ==
    /\ spc = "literal" /\ building # <<>> /\ chain < MaxChain
    /\ \E args \in IndexArgs :
          building' = [building EXCEPT ![Len(building)] =
                          P(building[Len(building)].k, index(building[Len(building)].v, args))]
    /\ chain' = chain + 1
    /\ UNCHANGED <<spc, normVars, shapeVars, driverVars>>

\* defineSchema({ ...building })
DefineSchemaCall ==
    /\ spc = "literal" /\ building # <<>>
    /\ LET r == defineSchema(tables, Obj(building))
       IN  tables' = r.tables
    /\ spc' = "called"
    /\ UNCHANGED <<building, chain, normVars, shapeVars,
                   argv, pc, rules, idx, cache, functions, stdout, stderr, exitCode, invoked>>

NextSchema == DefineTableCall \/ IndexCall \/ DefineSchemaCall

SpecSchema == InitSchema /\ [][NextSchema]_vars

\* The (field, value) pairs a builder captured, whatever the shape
CapturedFields(validator) ==
    IF IsCanonicalShaped(validator) THEN ObjectEntries(Get(validator, "properties"))
    ELSE IF HasMarker(validator) THEN ObjectEntries(Get(validator, "fields"))
    ELSE ObjectEntries(validator)

\* The TableDescriptor the claim prescribes for a mapping entry
ExpectedTable(entry) ==
    LET fs == CapturedFields(Get(entry.v, "_validator"))
    IN  Obj(<<P("name", Str(entry.k)),
              P("columns", Arr([i \in 1..Len(fs) |->
                  Obj(<<P("name", Str(fs[i].k)), P("data_type", normalize(fs[i].v))>>)]))>>)

\* C17: a defineSchema call with a mapping of n entries leaves the entries
\* already in the table list as they were and appends n descriptors, the
\* i-th named after the i-th entry and listing its captured fields in
\* declaration order, each with its normalized descriptor.
SchemaAppends ==
    [][spc' = "called" =>
          /\ Len(tables') = Len(tables) + Len(building)
          /\ SubSeq(tables', 1, Len(tables)) = tables
          /\ \A i \in 1..Len(building) :
                tables'[Len(tables) + i] = ExpectedTable(building[i])]_vars

\* A second call registered two tables, one from a raw mapping and one
\* from an already-built object descriptor, after an earlier table.
SchemaAppendsWitness ==
    /\ spc = "called" /\ Len(building) = 2 /\ Len(tables) = 3
    /\ IsRaw(Get(building[1].v, "_validator"))
    /\ IsCanonicalShaped(Get(building[2].v, "_validator"))
    /\ \A i \in 1..2 : tables[1 + i] = ExpectedTable(building[i])
    /\ Len(ArrItems(Get(tables[2], "columns"))) = 2

\* C18: a chained index or searchIndex call leaves the builder, and with
\* it the captured field mapping, as it was, so that defineSchema yields
\* the same table list with the calls as without them.
IndexIsNoOp ==
    [][chain' > chain =>
          /\ building' = building
          /\ defineSchema(tables', Obj(building')) = defineSchema(tables, Obj(building))]_vars

\* A builder with two chained calls was registered.
IndexWitness ==
    /\ spc = "called" /\ chain = MaxChain
    /\ tables # <<>>
    /\ tables[Len(tables)] = ExpectedTable(P(building[Len(building)].k,
                                 defineTable(Get(building[Len(building)].v, "_validator"))))

\* The names in the table list
TableNameSeq == [i \in 1..Len(tables) |-> Get(tables[i], "name")]

\* C20: no two entries of the table list carry the same name.
TableNamesUnique ==
    \A i, j \in 1..Len(tables) : TableNameSeq[i] = TableNameSeq[j] => i = j

(***************************************************************************)
(* Module interception                                                     *)
(***************************************************************************)
\* Specifiers by which target modules ask for the library's two surfaces
ValuesRequests == {<<"convex", "/", "values">>}

ServerRequests == {<<"convex", "/", "server">>}

\* Specifiers of generated scaffolding, by kind
ApiRequests ==
    {<<".", "/", "_generated", "/", "api">>, <<"..", "/", "_generated", "/", "api", ".js">>}

GeneratedServerRequests ==
    {<<".", "/", "_generated", "/", "server">>, <<"..", "/", "_generated", "/", "server", ".js">>}

DataModelRequests ==
    {<<".", "/", "_generated", "/", "dataModel">>, <<"..", "/", "_generated", "/", "dataModel", ".d.ts">>}

Installed == pc \notin {"off", "start"}

\* Generated api, server and dataModel requests reach their stand-ins.
ScaffoldingIntercepted ==
    /\ \A q \in ApiRequests : Resolve(rules, q) = MockApi
    /\ \A q \in GeneratedServerRequests : Resolve(rules, q) = MockServer
    /\ \A q \in DataModelRequests : Resolve(rules, q) = MockApi

ArgvsTagged == {<<>>} \cup SeqsUpTo(Paths \cup {PathMeta}, MaxArgs)

InitTagged ==
    /\ argv \in ArgvsTagged
    /\ pc = "start" /\ rules = <<>> /\ idx = 0 /\ cache = <<>>
    /\ tables = <<>> /\ functions = <<>> /\ stdout = <<>> /\ stderr = <<>> /\ exitCode = -1
    /\ invoked = <<>>
    /\ NormIdle /\ ShapesIdle /\ SchemaIdle

SpecTagged == InitTagged /\ [][Next]_vars

\* query, mutation, action, internalQuery, internalMutation,
\* internalAction, httpAction
RegistrarKinds ==
    {"query", "mutation", "action", "internalQuery", "internalMutation", "internalAction",
     "httpAction"}

\* C21: every record collected, and every record of the emitted document,
\* has one of the seven registrar kinds as its type.
KindsAreRegistrarKinds ==
    /\ \A i \in 1..Len(functions) :
          Get(functions[i], "type") \in {Str(k) : k \in RegistrarKinds}
    /\ (pc = "exited" /\ exitCode = 0) =>
          \A i \in 1..Len(DocumentFunctions) :
             Get(DocumentFunctions[i], "type") \in {Str(k) : k \in RegistrarKinds}

(***************************************************************************)
(* The origin of a record                                                  *)
(***************************************************************************)
RECURSIVE ScannedPaths(_)
\* For each registered export met by the function loop at argv[2..j], the
\* path of the module it came from
ScannedPaths(j) ==
    IF j < 2 THEN <<>>
    ELSE ScannedPaths(j - 1) \o
         [i \in 1..Len(RegisteredExports(Cached(argv[j]).exports)) |-> argv[j]]

\* The characters that separate the components of a path
Separators == {"/", "\\"}

\* The last component of a path
BaseName(fp) ==
    LET seps == {i \in 1..Len(fp) : fp[i] \in Separators}
        last == IF seps = {} THEN 0 ELSE CHOOSE i \in seps : \A j \in seps : j <= i
    IN  SubSeq(fp, last + 1, Len(fp))

\* A file name without its extension, the part from the last dot on
StripExtension(name) ==
    LET dots == {i \in 2..Len(name) : name[i] = "."}
        last == IF dots = {} THEN Len(name) + 1 ELSE CHOOSE i \in dots : \A j \in dots : j <= i
    IN  SubSeq(name, 1, last - 1)

\* C22: every record carries as file_name the base name, extension
\* stripped, of the path of the module it was extracted from.
FileNameIsBaseName ==
    /\ Len(functions) = Len(ScannedPaths(idx - 1))
    /\ \A i \in 1..Len(functions) :
          Get(functions[i], "file_name") =
              Str(Join(StripExtension(BaseName(ScannedPaths(idx - 1)[i]))))

\* Whether declared args are present and normalize to something other
\* than an object descriptor
NormalizesToNonObject(args) ==
    /\ ~NullOrUndefined(args)
    /\ normalize(args) # Thrown
    /\ Get(normalize(args), "type") # Str("object")

\* C23: a registered export whose declared args normalize to something
\* other than an object descriptor still has its one record, with empty
\* params, and the run only ends with an error when a module failed to load.
NonObjectArgsGiveNoParams ==
    /\ Len(functions) = Len(Scanned)
    /\ \A i \in 1..Len(functions) :
          NormalizesToNonObject(Get(Get(Scanned[i].v, "__config"), "args")) =>
              /\ Get(functions[i], "name") = Str(Scanned[i].k)
              /\ Get(functions[i], "params") = Arr(<<>>)
    /\ (exitCode = 1 /\ cache # <<>>) => LoadFailed

\* The four functions with an optional object, a union, a scalar
\* descriptor and a string as args are in the document, without params.
NonObjectArgsWitness ==
    /\ pc = "exited" /\ exitCode = 0
    /\ Len(DocumentFunctions) = 4
    /\ [i \in 1..4 |-> Get(DocumentFunctions[i], "name")] =
          <<Str("optionalArgs"), Str("unionArgs"), Str("scalarArgs"), Str("anyArgs")>>
    /\ \A i \in 1..4 :
          /\ NormalizesToNonObject(Get(Get(Scanned[i].v, "__config"), "args"))
          /\ Get(DocumentFunctions[i], "params") = Arr(<<>>)
    /\ normalize(Get(Get(Scanned[1].v, "__config"), "args")) =
          Obj(<<P("type", Str("optional")),
                P("inner", Obj(<<P("type", Str("object")),
                                 P("properties", Obj(<<P("id", Type("string"))>>))>>))>>)

====
